---- MODULE Spec2Model ----
(***************************************************************************)
(* Session configuration and event translation of the Recipe Finder        *)
(* orchestrator (src/src/workflow/orchestrator.ts).                         *)
(*                                                                         *)
(* The module models: the module-level constants evaluated at load time,   *)
(* getOptions, and the async generator streamAgent, driven by a caller     *)
(* that pulls events (next), may abandon the iteration (return), and by    *)
(* the reasoning engine's message stream (deliver, close, fault).          *)
(*                                                                         *)
(* Optional JavaScript values (a field that may be absent/undefined) are   *)
(* sequences of length at most one: None is absent, Some(x) is present.    *)
(***************************************************************************)
EXTENDS Integers, Sequences, FiniteSets, TLC

None == <<>>
Some(x) == <<x>>

\* ---------------------------------------------------------------- bounds
\* longest engine stream that is explored with the stream messages
MaxMsgs == 2
\* longest content list of a message
MaxBlocks == 2
\* pulls the caller still makes after the generator has completed
MaxIdlePulls == 1

\* ------------------------------------------------- environment and config
ContainerChrome == "/usr/bin/chromium"

\* values of process.env.CHROME_PATH: unset, the container value, another
ChromePaths == {None, Some(ContainerChrome), Some("/opt/google/chrome")}

baseArgs ==
    << "-y", "chrome-devtools-mcp@latest", "--headless", "--isolated",
       "--no-category-emulation", "--no-category-performance",
       "--no-category-network" >>

containerArgs ==
    << "--executable-path=/usr/bin/chromium", "--chrome-arg=--no-sandbox",
       "--chrome-arg=--disable-setuid-sandbox",
       "--chrome-arg=--disable-dev-shm-usage", "--chrome-arg=--disable-gpu" >>

\* a bug: every CHROME_PATH that is set counts as the container
buildArgsAnyPath(chromePath) ==
    LET isContainer == chromePath # None
    IN  IF isContainer THEN baseArgs \o containerArgs ELSE baseArgs

\* buildChromeDevToolsArgs, as a function of process.env.CHROME_PATH
buildChromeDevToolsArgs(chromePath) ==
    LET isContainer == chromePath = Some(ContainerChrome)
    IN  IF isContainer THEN baseArgs \o containerArgs ELSE baseArgs

\* a bug: "fill" is listed twice and "fill_form" is missing
AllowedToolsFillTwice ==
    << "mcp__chrome-devtools__click",
       "mcp__chrome-devtools__fill",
       "mcp__chrome-devtools__fill",
       "mcp__chrome-devtools__hover",
       "mcp__chrome-devtools__press_key",
       "mcp__chrome-devtools__navigate_page",
       "mcp__chrome-devtools__new_page",
       "mcp__chrome-devtools__list_pages",
       "mcp__chrome-devtools__select_page",
       "mcp__chrome-devtools__close_page",
       "mcp__chrome-devtools__wait_for",
       "mcp__chrome-devtools__take_screenshot",
       "mcp__chrome-devtools__take_snapshot" >>

ALLOWED_TOOLS ==
    << "mcp__chrome-devtools__click",
       "mcp__chrome-devtools__fill",
       "mcp__chrome-devtools__fill_form",
       "mcp__chrome-devtools__hover",
       "mcp__chrome-devtools__press_key",
       "mcp__chrome-devtools__navigate_page",
       "mcp__chrome-devtools__new_page",
       "mcp__chrome-devtools__list_pages",
       "mcp__chrome-devtools__select_page",
       "mcp__chrome-devtools__close_page",
       "mcp__chrome-devtools__wait_for",
       "mcp__chrome-devtools__take_screenshot",
       "mcp__chrome-devtools__take_snapshot" >>

\* the policy text is opaque to the control logic
SYSTEM_PROMPT == "You are a Recipe Finder agent ..."

\* ------------------------------------------------------- engine messages
TextBlock(t) == [type |-> "text", text |-> t, name |-> ""]
ToolUseBlock(n) == [type |-> "tool_use", text |-> "", name |-> n]
OtherBlock == [type |-> "thinking", text |-> "", name |-> ""]

Blocks ==
    { TextBlock("Hello"), TextBlock(""), ToolUseBlock("click"),
      ToolUseBlock(""), OtherBlock }

RECURSIVE SeqsUpTo(_, _)
SeqsUpTo(S, n) ==
    IF n = 0 THEN { <<>> }
    ELSE LET shorter == SeqsUpTo(S, n - 1)
         IN  shorter \cup { Append(s, x) : s \in shorter, x \in S }

Usage(i, o) == [input_tokens |-> i, output_tokens |-> o]

\* message.message?.usage: absent, or a snapshot whose counters may be missing
Usages ==
    { None, Some(Usage(Some(10), Some(5))), Some(Usage(None, Some(5))),
      Some(Usage(Some(0), None)) }

\* message.result: absent, empty, or a final text
Results == { None, Some(""), Some("ok") }

MessageTypes == { "assistant", "user" }

Msg(t, c, u, r) == [type |-> t, content |-> c, usage |-> u, result |-> r]

\* every message shape within the bounds
Messages ==
    { Msg(t, c, u, r) :
        t \in MessageTypes,
        c \in {None} \cup { Some(bs) : bs \in SeqsUpTo(Blocks, MaxBlocks) },
        u \in Usages,
        r \in Results }

\* the shapes that are explored in streams of more than one message
StreamMessages ==
    { Msg("user", None, None, None),
      Msg("assistant", Some(<< TextBlock("partial") >>), None, None),
      Msg("assistant", Some(<< TextBlock("Hello"), ToolUseBlock("click") >>),
          None, None),
      Msg("assistant", Some(<< ToolUseBlock("click"), TextBlock("Hello") >>),
          Some(Usage(Some(10), Some(5))), None),
      Msg("user", None, Some(Usage(Some(10), Some(5))), None),
      Msg("assistant", Some(<<>>), None, None),
      Msg("user", None, None, Some("ok")),
      Msg("user", None, None, Some("")) }

Faults == { "ECONNRESET", "ETIMEDOUT" }

Prompts == { "", "find a lasagna recipe" }

\* --------------------------------------------------------------- events
TextEvent(text) == [type |-> "text", text |-> text]
ToolEvent(name) == [type |-> "tool", name |-> name]
\* a bug: the final text is reported as the completion marker
ResultAsDone(text) == [type |-> "done"]

\* a bug: the completion marker is sent as an empty final text
DoneAsResult == [type |-> "result", text |-> ""]

ResultEvent(text) == [type |-> "result", text |-> text]
DoneEvent == [type |-> "done"]

\* JavaScript  x || 0  on an optional number
OrZero(x) == IF x = None \/ x[1] = 0 THEN 0 ELSE x[1]

\* a bug: the two counters are exchanged
UsageEventSwapped(u) ==
    [type |-> "usage", input |-> OrZero(u.output_tokens),
     output |-> OrZero(u.input_tokens)]

UsageEvent(u) ==
    [type |-> "usage", input |-> OrZero(u.input_tokens),
     output |-> OrZero(u.output_tokens)]

\* ------------------------------------------------- the loop body's tests
\* a bug: the content blocks of a message of any type are scanned
HasContentAnyType(message) == message.content # None

\* message.type === "assistant" && message.message?.content
HasContent(message) == message.type = "assistant" /\ message.content # None

\* block.type === "text" && block.text
IsText(block) == block.type = "text" /\ block.text # ""

\* block.type === "tool_use"
IsToolUse(block) == block.type = "tool_use"

\* message.message?.usage
HasUsage(message) == message.usage # None

\* a bug: only the presence of the field is tested
HasResultField(message) == message.result # None

\* "result" in message && message.result
HasResult(message) == message.result # None /\ message.result[1] # ""

\* ------------------------------------------------------------- variables
VARIABLES
    loadEnv,                    \* process.env.CHROME_PATH at module load
    env,                        \* process.env.CHROME_PATH
    CHROME_DEVTOOLS_MCP_CONFIG, \* the module constant, evaluated at load
    returned,                   \* what getOptions handed back to its caller
    prompt,                     \* the argument of the streamAgent invocation
    sessions,                   \* the query() calls made: prompt and options
    gen,                        \* state of the generator object
    pc,                         \* where the generator body is suspended
    message,                    \* the loop variable of the for await
    requested,                  \* next() calls made on the engine's iterator
    delivered,                  \* messages the engine has delivered
    engine,                     \* state of the engine's iterator
    raised,                     \* the fault the engine raised, if any
    out,                        \* the events the caller has received
    origin,                     \* for each event, the message it came from
    thrown,                     \* the fault the caller has received, if any
    pulls,                      \* next() calls the caller has made
    idlePulls                   \* of these, made after completion

vars ==
    << loadEnv, env, CHROME_DEVTOOLS_MCP_CONFIG, returned, prompt, sessions,
       gen, pc, message, requested, delivered, engine, raised, out, origin, thrown,
       pulls, idlePulls >>

configVars == << loadEnv, env, CHROME_DEVTOOLS_MCP_CONFIG >>
engineVars == << delivered, engine, raised >>

\* The engine streams that are explored: up to MaxMsgs stream messages under
\* every environment and prompt, and one message of any shape under one
\* environment and prompt (the loop body reads neither).
NextMessages ==
    IF delivered = <<>>
    THEN IF /\ loadEnv = None
            /\ env = None
            /\ prompt = Some("find a lasagna recipe")
         THEN Messages \cup StreamMessages
         ELSE StreamMessages
    ELSE IF /\ Len(delivered) < MaxMsgs
            /\ \A k \in 1..Len(delivered) : delivered[k] \in StreamMessages
         THEN StreamMessages
         ELSE {}

\* ------------------------------------------------------------ getOptions
\* a bug: the launch specification is never attached
getOptionsShared(standalone) ==
    [env |-> [CHROME_PATH |-> env],
     systemPrompt |-> SYSTEM_PROMPT,
     model |-> "haiku",
     allowedTools |-> ALLOWED_TOOLS,
     maxTurns |-> 50]

\* a bug: the launch specification is attached whatever standalone is
getOptionsAlwaysStandalone(standalone) ==
    [env |-> [CHROME_PATH |-> env],
     systemPrompt |-> SYSTEM_PROMPT,
     model |-> "haiku",
     allowedTools |-> ALLOWED_TOOLS,
     maxTurns |-> 50,
     mcpServers |-> ("chrome-devtools" :> CHROME_DEVTOOLS_MCP_CONFIG)]

\* a bug: the launch arguments are built again at every call
getOptionsPerRequest(standalone) ==
    LET options ==
            [env |-> [CHROME_PATH |-> env],
             systemPrompt |-> SYSTEM_PROMPT,
             model |-> "haiku",
             allowedTools |-> ALLOWED_TOOLS,
             maxTurns |-> 50]
    IN  IF standalone
        THEN options @@
             [mcpServers |->
                 ("chrome-devtools" :>
                     [type |-> "stdio", command |-> "npx",
                      args |-> buildChromeDevToolsArgs(env)])]
        ELSE options

\* export const CHROME_DEVTOOLS_MCP_CONFIG is evaluated when the module is
\* loaded (Init); getOptions attaches that object
getOptions(standalone) ==
    LET options ==
            [env |-> [CHROME_PATH |-> env],
             systemPrompt |-> SYSTEM_PROMPT,
             model |-> "haiku",
             allowedTools |-> ALLOWED_TOOLS,
             maxTurns |-> 50]
    IN  IF standalone
        THEN options @@
             [mcpServers |-> ("chrome-devtools" :> CHROME_DEVTOOLS_MCP_CONFIG)]
        ELSE options

\* ------------------------------------------------------- the loop body
\* Where the body is: in the first block loop ("text"), in the second
\* ("tool"), at the usage test, at the result test, at its end; i is the
\* block index.
\* a bug: the next message is asked for while an event is handed over
YieldAndPrefetch(event, ph, i) ==
    [ev |-> Some(event), ph |-> ph, i |-> i, request |-> TRUE]

Yield(event, ph, i) ==
    [ev |-> Some(event), ph |-> ph, i |-> i, request |-> FALSE]

\* a bug: the loop is left waiting without asking for the next message
EndOfBodyStop == [ev |-> None, ph |-> "text", i |-> 1, request |-> FALSE]

\* the body ran to its end: the for await asks the engine for the next message
EndOfBody == [ev |-> None, ph |-> "text", i |-> 1, request |-> TRUE]

\* a bug: one scan of the content list, each block tested for text and for
\* tool use
RECURSIVE RunBodyOneScan(_, _, _)
RunBodyOneScan(m, ph, i) ==
    IF ph = "text" \/ ph = "tool" THEN
        IF HasContent(m) /\ i <= Len(m.content[1]) THEN
            LET block == m.content[1][i]
            IN  IF IsText(block)
                THEN Yield(TextEvent(block.text), "text", i + 1)
                ELSE IF IsToolUse(block)
                THEN Yield(ToolEvent(block.name), "text", i + 1)
                ELSE RunBodyOneScan(m, "text", i + 1)
        ELSE RunBodyOneScan(m, "usage", 1)
    ELSE IF ph = "usage" THEN
        IF HasUsage(m)
        THEN Yield(UsageEvent(m.usage[1]), "result", 1)
        ELSE RunBodyOneScan(m, "result", 1)
    ELSE IF ph = "result" THEN
        IF HasResult(m)
        THEN Yield(ResultEvent(m.result[1]), "end", 1)
        ELSE EndOfBody
    ELSE EndOfBody

\* Run the loop body on message from position (ph, i) up to its next yield,
\* or to its end.
RECURSIVE RunBody(_, _, _)
RunBody(m, ph, i) ==
    IF ph = "text" THEN
        IF HasContent(m) /\ i <= Len(m.content[1]) THEN
            LET block == m.content[1][i]
            IN  IF IsText(block)
                THEN Yield(TextEvent(block.text), "text", i + 1)
                ELSE RunBody(m, "text", i + 1)
        ELSE RunBody(m, "tool", 1)
    ELSE IF ph = "tool" THEN
        IF HasContent(m) /\ i <= Len(m.content[1]) THEN
            LET block == m.content[1][i]
            IN  IF IsToolUse(block)
                THEN Yield(ToolEvent(block.name), "tool", i + 1)
                ELSE RunBody(m, "tool", i + 1)
        ELSE RunBody(m, "usage", 1)
    ELSE IF ph = "usage" THEN
        IF HasUsage(m)
        THEN Yield(UsageEvent(m.usage[1]), "result", 1)
        ELSE RunBody(m, "result", 1)
    ELSE IF ph = "result" THEN
        IF HasResult(m)
        THEN Yield(ResultEvent(m.result[1]), "end", 1)
        ELSE EndOfBody
    ELSE EndOfBody

\* a bug: the newest event is handed over ahead of the earlier ones
EmitFirst(events, event) == << event >> \o events

\* yield hands one event to the caller
Emit(events, event) == Append(events, event)

\* a bug: the fault is caught and another one is raised in its place
PropagateWrapped(fault) == Some("stream failed")

\* a fault of the engine's iterator leaves the generator as it is
Propagate(fault) == Some(fault)

\* the generator runs from (m, ph, i), m being message number k, until it
\* yields or awaits the engine
Run(m, k, ph, i) ==
    LET r == RunBody(m, ph, i)
    IN  /\ pc' = [ph |-> r.ph, i |-> r.i]
        /\ out' = IF r.ev # None THEN Emit(out, r.ev[1]) ELSE out
        /\ origin' = IF r.ev # None THEN Emit(origin, k) ELSE origin
        /\ gen' = IF r.ev # None THEN "suspendedYield" ELSE "awaiting"
        /\ requested' = IF r.request THEN requested + 1 ELSE requested

\* ------------------------------------------------------------------ Init
Init ==
    /\ loadEnv \in ChromePaths
    /\ env = loadEnv
    /\ CHROME_DEVTOOLS_MCP_CONFIG =
           [type |-> "stdio", command |-> "npx",
            args |-> buildChromeDevToolsArgs(loadEnv)]
    /\ returned = None
    /\ prompt = None
    /\ sessions = <<>>
    /\ gen = "none"
    /\ pc = [ph |-> "start", i |-> 1]
    /\ message = None
    /\ requested = 0
    /\ delivered = <<>>
    /\ engine = "unopened"
    /\ raised = None
    /\ out = <<>>
    /\ origin = <<>>
    /\ thrown = None
    /\ pulls = 0
    /\ idlePulls = 0

\* --------------------------------------------------------------- actions
\* the environment variable is written: before the session is configured
\* (the last time the program reads it), or after the generator completed
SetEnv(chromePath) ==
    /\ sessions = <<>> \/ gen = "completed"
    /\ chromePath # env
    /\ env' = chromePath
    /\ UNCHANGED << loadEnv, CHROME_DEVTOOLS_MCP_CONFIG, returned, prompt,
                    sessions, gen, pc, message, requested, engineVars, out,
                    origin, thrown, pulls, idlePulls >>

\* A caller other than streamAgent asks for a configuration; arg is the
\* argument it passes, if any (standalone = false is the default).
GetOptions(arg) ==
    /\ gen = "none"
    /\ returned' =
           Some([arg |-> arg,
                 options |-> getOptions(IF arg = None THEN FALSE ELSE arg[1])])
    /\ UNCHANGED << configVars, prompt, sessions, gen, pc, message, requested,
                    engineVars, out, origin, thrown, pulls, idlePulls >>

\* a bug: a plain function that calls query() at once and returns a generator
\* over its stream
StreamAgentEager(p) ==
    /\ gen = "none"
    /\ prompt' = Some(p)
    /\ gen' = "suspendedStart"
    /\ returned' = None
    /\ sessions' = Append(sessions, [prompt |-> p, options |-> getOptions(TRUE)])
    /\ engine' = "open"
    /\ UNCHANGED << configVars, pc, message, requested, delivered, raised,
                    out, origin, thrown, pulls, idlePulls >>

\* streamAgent(p): an async generator function only creates the generator
\* (the caller keeps no configuration of its own from here on)
StreamAgent(p) ==
    /\ gen = "none"
    /\ prompt' = Some(p)
    /\ gen' = "suspendedStart"
    /\ returned' = None
    /\ UNCHANGED << configVars, sessions, pc, message, requested, engineVars,
                    out, origin, thrown, pulls, idlePulls >>

\* first next(): the body starts, query() opens the session and the
\* for await asks for the first message
NextStart ==
    /\ gen = "suspendedStart"
    /\ sessions' =
           Append(sessions, [prompt |-> prompt[1], options |-> getOptions(TRUE)])
    /\ engine' = "open"
    /\ requested' = requested + 1
    /\ gen' = "awaiting"
    /\ pc' = [ph |-> "text", i |-> 1]
    /\ pulls' = pulls + 1
    /\ UNCHANGED << configVars, returned, prompt, message, delivered, raised,
                    out, origin, thrown, idlePulls >>

\* next() on a generator suspended at a yield of the loop body
NextInBody ==
    /\ gen = "suspendedYield"
    /\ pc.ph # "done"
    /\ Run(message[1], Len(delivered), pc.ph, pc.i)
    /\ pulls' = pulls + 1
    /\ UNCHANGED << configVars, returned, prompt, sessions, message,
                    engineVars, thrown, idlePulls >>

\* next() on a generator suspended at the last yield: the body ends
NextAfterDone ==
    /\ gen = "suspendedYield"
    /\ pc.ph = "done"
    /\ gen' = "completed"
    /\ pulls' = pulls + 1
    /\ UNCHANGED << configVars, returned, prompt, sessions, pc, message,
                    requested, engineVars, out, origin, thrown, idlePulls >>

\* next() on a completed generator resolves to { done: true }
NextCompleted ==
    /\ gen = "completed"
    /\ idlePulls < MaxIdlePulls
    /\ pulls' = pulls + 1
    /\ idlePulls' = idlePulls + 1
    /\ UNCHANGED << configVars, returned, prompt, sessions, gen, pc, message,
                    requested, engineVars, out, origin, thrown >>

CallerNext == NextStart \/ NextInBody \/ NextAfterDone \/ NextCompleted

\* a bug: the completion marker is also produced when the caller abandons
\* the iteration (a finally block around the loop)
CallerReturnYieldsDone ==
    /\ gen \in { "suspendedStart", "suspendedYield" }
    /\ gen' = "completed"
    /\ engine' = IF engine = "open" THEN "returned" ELSE engine
    /\ out' = Emit(out, DoneEvent)
    /\ origin' = Emit(origin, Len(delivered) + 1)
    /\ UNCHANGED << configVars, returned, prompt, sessions, pc, message,
                    requested, delivered, raised, thrown, pulls, idlePulls >>

\* return() on a suspended generator: the caller abandons the iteration;
\* inside the loop the for await closes the engine's iterator
CallerReturn ==
    /\ gen \in { "suspendedStart", "suspendedYield" }
    /\ gen' = "completed"
    /\ engine' = IF engine = "open" THEN "returned" ELSE engine
    /\ UNCHANGED << configVars, returned, prompt, sessions, pc, message,
                    requested, delivered, raised, out, origin, thrown, pulls,
                    idlePulls >>

\* the engine answers the pending request with the next message
EngineDeliver(m) ==
    /\ gen = "awaiting"
    /\ engine = "open"
    /\ requested = Len(delivered) + 1
    /\ m \in NextMessages
    /\ delivered' = Append(delivered, m)
    /\ message' = Some(m)
    /\ Run(m, Len(delivered) + 1, "text", 1)
    /\ UNCHANGED << configVars, returned, prompt, sessions, engine, raised,
                    thrown, pulls, idlePulls >>

\* the engine closes its iterator: the loop ends and Done is yielded
EngineClose ==
    /\ gen = "awaiting"
    /\ engine = "open"
    /\ requested = Len(delivered) + 1
    /\ engine' = "closed"
    /\ out' = Emit(out, DoneEvent)
    /\ origin' = Emit(origin, Len(delivered) + 1)
    /\ pc' = [ph |-> "done", i |-> 1]
    /\ gen' = "suspendedYield"
    /\ UNCHANGED << configVars, returned, prompt, sessions, message,
                    requested, delivered, raised, thrown, pulls, idlePulls >>

\* the engine's iterator rejects: the fault leaves the generator
EngineFault(fault) ==
    /\ gen = "awaiting"
    /\ engine = "open"
    /\ requested = Len(delivered) + 1
    /\ engine' = "faulted"
    /\ raised' = Some(fault)
    /\ thrown' = Propagate(fault)
    /\ gen' = "completed"
    /\ UNCHANGED << configVars, returned, prompt, sessions, pc, message,
                    requested, delivered, out, origin, pulls, idlePulls >>

Next ==
    \/ \E chromePath \in ChromePaths : SetEnv(chromePath)
    \/ \E arg \in { None, Some(TRUE), Some(FALSE) } : GetOptions(arg)
    \/ \E p \in Prompts : StreamAgent(p)
    \/ CallerNext
    \/ CallerReturn
    \/ \E m \in NextMessages : EngineDeliver(m)
    \/ EngineClose
    \/ \E fault \in Faults : EngineFault(fault)

Spec == Init /\ [][Next]_vars

\* a caller that keeps pulling, and an engine whose stream is finite: when
\* it is asked for a message and delivers none and raises no fault, it closes
FairSpec == Spec /\ WF_vars(CallerNext) /\ WF_vars(EngineClose)

\* ------------------------------------------------ vocabulary of the claims
\* The events a message must give, stated without the generator: Text for
\* the non-empty text blocks, ToolInvocation for the tool-invocation blocks,
\* Usage, Result.
IsAssistantTurn(m) == m.type = "assistant" /\ m.content # None

RECURSIVE TextsOf(_)
TextsOf(blocks) ==
    IF blocks = <<>> THEN <<>>
    ELSE LET b == Head(blocks)
         IN  (IF b.type = "text" /\ b.text # ""
              THEN << [type |-> "text", text |-> b.text] >> ELSE <<>>)
             \o TextsOf(Tail(blocks))

RECURSIVE ToolsOf(_)
ToolsOf(blocks) ==
    IF blocks = <<>> THEN <<>>
    ELSE LET b == Head(blocks)
         IN  (IF b.type = "tool_use"
              THEN << [type |-> "tool", name |-> b.name] >> ELSE <<>>)
             \o ToolsOf(Tail(blocks))

\* text and tool-invocation events in the order of the blocks
RECURSIVE InBlockOrder(_)
InBlockOrder(blocks) ==
    IF blocks = <<>> THEN <<>>
    ELSE TextsOf(<< Head(blocks) >>) \o ToolsOf(<< Head(blocks) >>)
         \o InBlockOrder(Tail(blocks))

CounterOf(c) == IF c = None THEN 0 ELSE c[1]

UsageOf(m) ==
    IF m.usage = None THEN <<>>
    ELSE << [type |-> "usage", input |-> CounterOf(m.usage[1].input_tokens),
             output |-> CounterOf(m.usage[1].output_tokens)] >>

ResultOf(m) ==
    IF m.result = None \/ m.result = Some("") THEN <<>>
    ELSE << [type |-> "result", text |-> m.result[1]] >>

\* the events of one message, as the two scans of the content list give them
EventsOf(m) ==
    (IF IsAssistantTurn(m)
     THEN TextsOf(m.content[1]) \o ToolsOf(m.content[1]) ELSE <<>>)
    \o UsageOf(m) \o ResultOf(m)

RECURSIVE EventsOfAll(_)
EventsOfAll(ms) ==
    IF ms = <<>> THEN <<>> ELSE EventsOf(Head(ms)) \o EventsOfAll(Tail(ms))

IsPrefix(s, t) == Len(s) <= Len(t) /\ \A j \in 1..Len(s) : s[j] = t[j]

\* the events the caller received that came from message number k
RECURSIVE Tagged(_, _, _)
Tagged(events, tags, k) ==
    IF events = <<>> \/ tags = <<>> THEN <<>>
    ELSE (IF Head(tags) = k THEN << Head(events) >> ELSE <<>>)
         \o Tagged(Tail(events), Tail(tags), k)

EventsFrom(k) == Tagged(out, origin, k)

\* the loop body has run to its end on message number k
Finished(k) == k \in 1..Len(delivered) /\ requested > k

DoneCount == Cardinality({ j \in 1..Len(out) : out[j].type = "done" })

DoneIsLast ==
    /\ out # <<>>
    /\ out[Len(out)].type = "done"
    /\ DoneCount = 1

\* C1: when the engine's stream ends without a fault, the events the caller
\* has received hold exactly one Done, it is the last one and nothing follows
\* it, however often the caller pulls again; a stream without a classifiable
\* message, the empty one included, gives exactly [Done].
C1_ExactlyOneDoneLast ==
    /\ engine = "closed" =>
          /\ DoneIsLast
          /\ (\A k \in 1..Len(delivered) : EventsOf(delivered[k]) = <<>>)
                => out = << [type |-> "done"] >>
    /\ engine # "closed" => DoneCount = 0

C1_Witness ==
    /\ engine = "closed"
    /\ gen = "completed"
    /\ idlePulls = MaxIdlePulls
    /\ Len(delivered) = 2
    /\ Len(out) = 4
    /\ DoneIsLast

\* C2: when the engine's stream raises a fault, the caller receives that very
\* fault, has received exactly the events of the messages that arrived
\* before it, and receives neither Done nor any other event afterwards.
C2_FaultPropagates ==
    /\ engine = "faulted" =>
          /\ raised # None
          /\ thrown = raised
          /\ gen = "completed"
          /\ out = EventsOfAll(delivered)
          /\ DoneCount = 0
    /\ thrown # None => engine = "faulted"

C2_Witness ==
    /\ engine = "faulted"
    /\ thrown = Some("ETIMEDOUT")
    /\ out = << [type |-> "text", text |-> "partial"] >>
    /\ idlePulls = MaxIdlePulls

\* C3: the events keep the arrival order of the messages: an event that comes
\* from an earlier message is never received after an event of a later one
\* (each event being one that its message gives).
C3_ArrivalOrder ==
    /\ Len(origin) = Len(out)
    /\ \A j \in 1..Len(out) :
          \/ out[j].type = "done"
          \/ /\ origin[j] \in 1..Len(delivered)
             /\ \E n \in 1..Len(EventsOf(delivered[origin[j]])) :
                   EventsOf(delivered[origin[j]])[n] = out[j]
    /\ \A j, k \in 1..Len(out) : j < k => origin[j] <= origin[k]

C3_Witness ==
    /\ Len(delivered) = 2
    /\ Len(EventsFrom(1)) >= 2
    /\ Len(EventsFrom(2)) >= 2
    /\ EventsFrom(1) # EventsFrom(2)

\* what C4 says one message gives: the block events in the order of the
\* blocks, then Usage, then Result
InListOrder(m) ==
    (IF IsAssistantTurn(m) THEN InBlockOrder(m.content[1]) ELSE <<>>)
    \o UsageOf(m) \o ResultOf(m)

\* C4: the Text and ToolInvocation events of one message are received in the
\* order of their blocks in the content list, then Usage, then Result.
C4_BlockListOrder ==
    \A k \in 1..Len(delivered) :
        Finished(k) => EventsFrom(k) = InListOrder(delivered[k])

OfType(events, t) == SelectSeq(events, LAMBDA e : e.type = t)

\* C5: a message with a usage snapshot gives exactly one Usage event, with
\* the snapshot's counters and 0 for a missing one; a message without a
\* snapshot gives none; the snapshot {10, 5} on a message without content
\* blocks (and without result) gives Usage(10, 5) and nothing else.
C5_UsageEvent ==
    \A k \in 1..Len(delivered) :
        LET m == delivered[k]
            usages == OfType(EventsFrom(k), "usage")
        IN  /\ IsPrefix(usages, UsageOf(m))
            /\ Finished(k) => usages = UsageOf(m)
            /\ ( /\ Finished(k)
                 /\ m.usage = Some(Usage(Some(10), Some(5)))
                 /\ m.content \in { None, Some(<<>>) }
                 /\ m.result = None )
               => EventsFrom(k) = << [type |-> "usage", input |-> 10,
                                      output |-> 5] >>

C5_Witness ==
    \E k \in 1..Len(delivered) :
        /\ Finished(k)
        /\ delivered[k].usage = Some(Usage(None, Some(5)))
        /\ delivered[k].content # None
        /\ Len(delivered[k].content[1]) = MaxBlocks
        /\ OfType(EventsFrom(k), "usage")
               = << [type |-> "usage", input |-> 0, output |-> 5] >>
        /\ Len(EventsFrom(k)) = MaxBlocks + 1

\* C6: a message gives a Result event exactly when it carries a non-empty
\* result field; it is the only one and its content is the field.
C6_ResultEvent ==
    \A k \in 1..Len(delivered) :
        LET m == delivered[k]
            results == OfType(EventsFrom(k), "result")
        IN  /\ IsPrefix(results, ResultOf(m))
            /\ Finished(k) => results = ResultOf(m)

C6_Witness ==
    /\ Len(delivered) = 2
    /\ Finished(2)
    /\ delivered[1].result = Some("ok")
    /\ delivered[2].result = Some("")
    /\ OfType(out, "result") = << [type |-> "result", text |-> "ok"] >>

Unrecognized(m) == m.content = None /\ m.usage = None /\ m.result = None

\* C7: a message without content, usage and result gives no event and no
\* error, and the session goes on: the next message is asked for, the
\* messages after it are classified and Done is received at the end.
C7_UnrecognizedSkipped ==
    \A k \in 1..Len(delivered) :
        Unrecognized(delivered[k]) =>
            /\ EventsFrom(k) = <<>>
            /\ Finished(k)
            /\ thrown # None => engine = "faulted"
            /\ \A j \in (k + 1)..Len(delivered) :
                  /\ IsPrefix(EventsFrom(j), EventsOf(delivered[j]))
                  /\ Finished(j) => EventsFrom(j) = EventsOf(delivered[j])
            /\ engine = "closed" => DoneIsLast

C7_Witness ==
    /\ Len(delivered) = 2
    /\ Unrecognized(delivered[1])
    /\ EventsFrom(2) = << [type |-> "text", text |-> "Hello"],
                          [type |-> "tool", name |-> "click"] >>
    /\ engine = "closed"
    /\ Len(out) = 3

\* C8: the sequence is lazy: the generator asks the engine for the next
\* message only while a pull of the caller is pending and after the caller
\* has received every event of the messages delivered so far, so at most one
\* message is in flight; and the caller never has more events than pulls.
C8_Lazy ==
    /\ requested \in { Len(delivered), Len(delivered) + 1 }
    /\ (requested = Len(delivered) + 1 /\ engine = "open") =>
          /\ gen = "awaiting"
          /\ out = EventsOfAll(delivered)
    /\ (gen = "suspendedYield" /\ engine = "open") => requested = Len(delivered)
    /\ gen = "suspendedYield" => Len(out) = pulls
    /\ gen = "awaiting" => Len(out) = pulls - 1
    /\ Len(out) <= pulls

C8_Witness ==
    /\ gen = "suspendedYield"
    /\ Len(delivered) = 1
    /\ requested = 1
    /\ Len(EventsOf(delivered[1])) = 3
    /\ Len(out) = 2
    /\ pulls = 2

\* C9: the sequence is finite: with a caller that keeps pulling and an engine
\* that answers every request, delivers finitely many messages and closes,
\* the generator eventually hands over Done as the last event and completes
\* (a fault of the engine or the caller abandoning it completes it as well).
C9_EventuallyDone ==
    (gen = "suspendedStart") ~>
        ( /\ gen = "completed"
          /\ \/ engine = "closed" /\ DoneIsLast
             \/ engine \in { "faulted", "returned", "unopened" } )

C9_Witness ==
    /\ gen = "completed"
    /\ engine = "closed"
    /\ DoneIsLast
    /\ Len(delivered) = MaxMsgs
    /\ pulls = Len(out) + 1
    /\ Len(out) > MaxMsgs + 1

\* the configuration of a standalone session
IsStandalone(options) ==
    /\ "mcpServers" \in DOMAIN options
    /\ DOMAIN options.mcpServers = { "chrome-devtools" }
    /\ options.mcpServers["chrome-devtools"] = CHROME_DEVTOOLS_MCP_CONFIG
    /\ CHROME_DEVTOOLS_MCP_CONFIG.type = "stdio"
    /\ CHROME_DEVTOOLS_MCP_CONFIG.command = "npx"
    /\ CHROME_DEVTOOLS_MCP_CONFIG.args \in { baseArgs, baseArgs \o containerArgs }
    /\ options.allowedTools = ALLOWED_TOOLS
    /\ options.maxTurns = 50
    /\ options.model = "haiku"

\* C10 as stated: every invocation of streamAgent has opened exactly one
\* session, never zero and never more, configured in standalone mode with
\* the prompt as given.
C10_ExactlyOneSession ==
    gen # "none" =>
        /\ Len(sessions) = 1
        /\ sessions[1].prompt = prompt[1]
        /\ IsStandalone(sessions[1].options)

\* C10, amended: an invocation opens at most one session: none until the
\* caller pulls the first event (none at all when the sequence is never
\* iterated or is abandoned before), exactly one from then on; that session
\* gets the prompt as given and the standalone configuration: the launch
\* specification under "chrome-devtools", the allow-list, maxTurns 50 and
\* the model "haiku".
C10_OneSessionOncePulled ==
    /\ Len(sessions) <= 1
    /\ Len(sessions) = 1 <=> pulls > idlePulls
    /\ \A n \in 1..Len(sessions) :
          /\ prompt # None
          /\ sessions[n].prompt = prompt[1]
          /\ IsStandalone(sessions[n].options)

C10_Witness ==
    /\ Len(sessions) = 1
    /\ sessions[1].prompt = ""
    /\ sessions[1].options.mcpServers["chrome-devtools"].args
           = baseArgs \o containerArgs
    /\ gen = "completed"
    /\ engine = "closed"
    /\ Len(delivered) = MaxMsgs

\* ---------------------------------------------------------------- C11
\* the flag lists of the claim, written out
BaselineFlags ==
    << "-y", "chrome-devtools-mcp@latest", "--headless", "--isolated",
       "--no-category-emulation", "--no-category-performance",
       "--no-category-network" >>

AdditionalFlags ==
    << "--executable-path=/usr/bin/chromium", "--chrome-arg=--no-sandbox",
       "--chrome-arg=--disable-setuid-sandbox",
       "--chrome-arg=--disable-dev-shm-usage", "--chrome-arg=--disable-gpu" >>

ExpectedArgs(chromePath) ==
    IF chromePath = << "/usr/bin/chromium" >>
    THEN BaselineFlags \o AdditionalFlags
    ELSE BaselineFlags

\* C11: buildChromeDevToolsArgs is total over the environment: the
\* arguments built at module load are the baseline flags followed by exactly
\* the five container flags when CHROME_PATH was "/usr/bin/chromium", and
\* exactly the baseline flags when it was absent or had any other value.
C11_ArgsByContainerSignal ==
    /\ CHROME_DEVTOOLS_MCP_CONFIG.args = ExpectedArgs(loadEnv)
    /\ Len(CHROME_DEVTOOLS_MCP_CONFIG.args)
          = Len(BaselineFlags) + (IF loadEnv = << "/usr/bin/chromium" >> THEN 5 ELSE 0)
    /\ \A chromePath \in ChromePaths :
          buildChromeDevToolsArgs(chromePath) = ExpectedArgs(chromePath)

\* CHROME_PATH was set at load, but not to the container's path
C11_Witness ==
    /\ loadEnv = << "/opt/google/chrome" >>
    /\ CHROME_DEVTOOLS_MCP_CONFIG.args = BaselineFlags
    /\ Len(sessions) = 1
    /\ sessions[1].options.mcpServers["chrome-devtools"].args = BaselineFlags

\* ---------------------------------------------------------------- C12
\* every configuration handed out so far: the one returned to a caller of
\* getOptions and the ones of the sessions
Configurations ==
    { returned[n].options : n \in 1..Len(returned) }
        \cup { sessions[n].options : n \in 1..Len(sessions) }

WithLaunchSpec == { o \in Configurations : "mcpServers" \in DOMAIN o }

LaunchArgs(options) == options.mcpServers["chrome-devtools"].args

\* C12 as stated: the launch specification is built once per configuration
\* request: the arguments attached by a getOptions(true) call match
\* CHROME_PATH as it was at that request (the configuration's own copy of
\* the environment), also when the variable changed earlier, and stay so in
\* every later state.
C12_ArgsMatchRequestTime ==
    \A o \in WithLaunchSpec : LaunchArgs(o) = ExpectedArgs(o.env.CHROME_PATH)

\* C12, amended: the launch specification is built once, when the module is
\* loaded, and never changes: every getOptions(true) call attaches the
\* arguments that match CHROME_PATH as it was at load, whatever its value at
\* the request, and the arguments attached to a session stay the same in
\* every later state, also when the variable is written afterwards.
C12_ArgsMatchLoadTime ==
    /\ \A o \in WithLaunchSpec :
          /\ LaunchArgs(o) = ExpectedArgs(loadEnv)
          /\ o.mcpServers["chrome-devtools"] = CHROME_DEVTOOLS_MCP_CONFIG
    /\ CHROME_DEVTOOLS_MCP_CONFIG.args = ExpectedArgs(loadEnv)

\* loaded outside the container, session requested inside it, and the
\* variable written once more after the session ended
C12_Witness ==
    /\ loadEnv = << >>
    /\ Len(sessions) = 1
    /\ sessions[1].options.env.CHROME_PATH = << "/usr/bin/chromium" >>
    /\ LaunchArgs(sessions[1].options) = BaselineFlags
    /\ gen = "completed"
    /\ env = << "/opt/google/chrome" >>

\* ---------------------------------------------------------------- C13
\* the identifiers of the claim, written out
AllowListIds ==
    { "mcp__chrome-devtools__click", "mcp__chrome-devtools__fill",
      "mcp__chrome-devtools__fill_form", "mcp__chrome-devtools__hover",
      "mcp__chrome-devtools__press_key",
      "mcp__chrome-devtools__navigate_page",
      "mcp__chrome-devtools__new_page", "mcp__chrome-devtools__list_pages",
      "mcp__chrome-devtools__select_page",
      "mcp__chrome-devtools__close_page", "mcp__chrome-devtools__wait_for",
      "mcp__chrome-devtools__take_screenshot",
      "mcp__chrome-devtools__take_snapshot" }

\* C13: the tool allow-list is a constant: in every state, after any calls
\* of getOptions and streamAgent, under any environment and prompt, the
\* allowedTools of every configuration handed out are the same 13 pairwise
\* distinct identifiers, nothing added and nothing removed.
C13_AllowListConstant ==
    \A o \in Configurations :
        /\ Len(o.allowedTools) = 13
        /\ { o.allowedTools[n] : n \in 1..13 } = AllowListIds
        /\ \A m, n \in 1..13 : o.allowedTools[m] = o.allowedTools[n] => m = n

\* a session with the empty prompt, configured after the environment was
\* changed, and run to its end
C13_Witness ==
    /\ Len(sessions) = 1
    /\ sessions[1].prompt = ""
    /\ sessions[1].options.env.CHROME_PATH # loadEnv
    /\ Len(sessions[1].options.allowedTools) = 13
    /\ gen = "completed"
    /\ Len(out) > 1

\* ---------------------------------------------------------------- C14
\* the keys attached under mcpServers
ServerKeys(options) ==
    IF "mcpServers" \in DOMAIN options THEN DOMAIN options.mcpServers ELSE {}

\* C14: every configuration returned by getOptions has maxTurns > 0 and
\* carries a launch specification exactly when standalone is true: called
\* with false, or with no argument (false is the default), it has no
\* mcpServers entry; called with true, as streamAgent does, it has exactly
\* one entry, under the key "chrome-devtools".
C14_LaunchSpecIffStandalone ==
    /\ \A o \in Configurations : o.maxTurns > 0
    /\ \A n \in 1..Len(returned) :
          IF returned[n].arg = << TRUE >>
          THEN ServerKeys(returned[n].options) = { "chrome-devtools" }
          ELSE "mcpServers" \notin DOMAIN returned[n].options
    /\ \A n \in 1..Len(sessions) :
          ServerKeys(sessions[n].options) = { "chrome-devtools" }

\* getOptions() called without an argument, inside the container
C14_Witness ==
    /\ returned # << >>
    /\ returned[1].arg = << >>
    /\ "mcpServers" \notin DOMAIN returned[1].options
    /\ returned[1].options.maxTurns = 50
    /\ loadEnv = << "/usr/bin/chromium" >>

\* ---------------------------------------------------------------- C15
\* the place of an event kind in the order of the claim
Rank(e) ==
    CASE e.type = "text" -> 1
      [] e.type = "tool" -> 2
      [] e.type = "usage" -> 3
      [] e.type = "result" -> 4
      [] OTHER -> 5

\* C15: the events of one message come as two scans of its content list
\* give them: every Text event before every ToolInvocation event, whatever
\* the positions of the blocks, then at most one Usage event, then at most
\* one Result event; once the loop body has finished with an assistant
\* message, its Text events are those of its non-empty text blocks in block
\* order and its ToolInvocation events those of its tool-invocation blocks
\* in block order.
C15_TwoScans ==
    \A k \in 1..Len(delivered) :
        LET m == delivered[k]
            events == EventsFrom(k)
        IN  /\ \A j, n \in 1..Len(events) :
                  j < n => Rank(events[j]) <= Rank(events[n])
            /\ Len(OfType(events, "usage")) <= 1
            /\ Len(OfType(events, "result")) <= 1
            /\ Finished(k) /\ m.type = "assistant" /\ m.content # None =>
                  /\ OfType(events, "text") = TextsOf(m.content[1])
                  /\ OfType(events, "tool") = ToolsOf(m.content[1])

\* a tool-invocation block ahead of a text block, with usage and result
C15_Witness ==
    /\ Len(delivered) = 1
    /\ delivered[1].type = "assistant"
    /\ delivered[1].content =
           << << [type |-> "tool_use", text |-> "", name |-> "click"],
                 [type |-> "text", text |-> "Hello", name |-> ""] >> >>
    /\ out = << [type |-> "text", text |-> "Hello"],
                [type |-> "tool", name |-> "click"],
                [type |-> "usage", input |-> 10, output |-> 5],
                [type |-> "result", text |-> "ok"] >>
    /\ requested = 2

\* ---------------------------------------------------------------- C16
\* the blocks of a message that give an event: text blocks with non-empty
\* text, tool-invocation blocks with any name
TextBlocksOf(m) ==
    SelectSeq(m.content[1], LAMBDA b : b.type = "text" /\ b.text # "")

ToolBlocksOf(m) == SelectSeq(m.content[1], LAMBDA b : b.type = "tool_use")

\* C16: once the loop body has finished with a message: if it is an
\* assistant turn carrying content blocks, it gave one Text event for each
\* text block with non-empty text and none for an empty one, one
\* ToolInvocation event with the block's name for every tool-invocation
\* block, the empty name included, and nothing for blocks of any other type;
\* if it is not, its content blocks gave no Text and no ToolInvocation event;
\* and whatever its type it gave a Usage event exactly when it has a usage
\* snapshot and a Result event exactly when its result is non-empty.
C16_EventSources ==
    \A k \in 1..Len(delivered) :
        LET m == delivered[k]
            texts == OfType(EventsFrom(k), "text")
            tools == OfType(EventsFrom(k), "tool")
        IN  Finished(k) =>
              /\ IF m.type = "assistant" /\ m.content # None
                 THEN /\ Len(texts) = Len(TextBlocksOf(m))
                      /\ \A j \in 1..Len(texts) :
                            texts[j].text = TextBlocksOf(m)[j].text
                      /\ Len(tools) = Len(ToolBlocksOf(m))
                      /\ \A j \in 1..Len(tools) :
                            tools[j].name = ToolBlocksOf(m)[j].name
                 ELSE texts = <<>> /\ tools = <<>>
              /\ Len(OfType(EventsFrom(k), "usage")) = 1 <=> m.usage # << >>
              /\ Len(OfType(EventsFrom(k), "result")) = 1
                    <=> (m.result # << >> /\ m.result # << "" >>)
              /\ \A j \in 1..Len(EventsFrom(k)) :
                    EventsFrom(k)[j].type \in { "text", "tool", "usage", "result" }

\* a message that is not an assistant turn, with a text block, a nameless
\* tool-invocation block, a usage snapshot and a result
C16_Witness ==
    /\ Len(delivered) = 1
    /\ delivered[1].type = "user"
    /\ delivered[1].content =
           << << [type |-> "text", text |-> "Hello", name |-> ""],
                 [type |-> "tool_use", text |-> "", name |-> ""] >> >>
    /\ requested = 2
    /\ out = << [type |-> "usage", input |-> 10, output |-> 5],
                [type |-> "result", text |-> "ok"] >>

\* ---------------------------------------------------------------- C17
\* the caller abandoned the iteration before the sequence was exhausted:
\* inside the loop (the engine's iterator was closed by the return), or
\* before the first pull
Abandoned == gen = "completed" /\ engine \in { "returned", "unopened" }

\* C17: when the caller abandons the iteration before the sequence is
\* exhausted, no Done event is emitted, neither then nor later, no further
\* event of any kind is emitted, and no further message is requested from
\* the engine: no request is pending at the abandonment, and the events
\* received, the requests made and the messages delivered stay as they are
\* for ever after, also when the caller pulls again.
C17_NothingAfterAbandon ==
    /\ [](Abandoned =>
             /\ \A j \in 1..Len(out) : out[j].type # "done"
             /\ requested = Len(delivered))
    /\ [][Abandoned =>
             /\ Abandoned'
             /\ out' = out
             /\ requested' = requested
             /\ delivered' = delivered]_vars

\* abandoned after the first of several events of a message, and pulled
\* again afterwards
C17_Witness ==
    /\ Abandoned
    /\ engine = "returned"
    /\ Len(delivered) = 1
    /\ Len(out) = 1
    /\ Len(EventsOf(delivered[1])) >= 3
    /\ idlePulls = MaxIdlePulls

\* ---------------------------------------------------------------- C18
\* C18: calling streamAgent does not open the engine session: as long as the
\* caller has not pulled the first event there is no session, the engine's
\* stream is unopened and no message is requested, and it stays so when the
\* sequence is never iterated; the session is opened by the first pull and by
\* nothing else, with the prompt of the call and the configuration read at
\* that pull (its copy of the environment is the environment of that
\* moment).
C18_SessionOpensAtFirstPull ==
    /\ [](gen = "suspendedStart" \/ pulls = idlePulls =>
             /\ sessions = << >>
             /\ engine = "unopened"
             /\ requested = 0
             /\ out = << >>)
    /\ [][sessions' # sessions =>
             /\ gen = "suspendedStart"
             /\ pulls' = pulls + 1
             /\ Len(sessions') = Len(sessions) + 1
             /\ sessions'[Len(sessions')].prompt = prompt[1]
             /\ sessions'[Len(sessions')].options.env.CHROME_PATH = env]_vars

\* streamAgent was called, the environment was written afterwards, and the
\* caller has not pulled
C18_Witness ==
    /\ gen = "suspendedStart"
    /\ prompt = << "find a lasagna recipe" >>
    /\ env # loadEnv
    /\ sessions = << >>
    /\ engine = "unopened"

====
